---- MODULE Spec2Model ----
(***************************************************************************)
(* Execution admission gateway of custom-ui/backend/server.js:             *)
(* isAnyDagRunning (the gate), GET /api/status/running and                 *)
(* POST /api/dags/:dagId/dagRuns, running against an Airflow upstream.     *)
(* SpecAuth is the upstream client: getJWTToken and the request and        *)
(* response interceptors of airflowAPI.                                    *)
(* SpecWindow is the gate on an upstream holding more runs than one list   *)
(* call returns; SpecLive is the gateway under its scheduling.             *)
(* Times are milliseconds, as Date.now() and Date arithmetic give them.    *)
(***************************************************************************)
EXTENDS Integers, Sequences, FiniteSets, TLC

\* ---------------------------------------------------------------- bounds
MaxLen == 3          \* longest run list drawn for the gate specification
MaxRuns == 2         \* most runs the upstream holds in the gateway specification
MaxTicks == 3        \* clock advances in the gateway specification
MaxReqs == 2         \* requests served in the gateway specification
MaxBeyond == 2       \* records older than the listed window in the window specification
MaxCalls == 2        \* airflowAPI calls made in the client specification
MaxTokens == 3       \* tokens the upstream issues in the client specification

\* ------------------------------------------------------ program constants
cooldownPeriod == 15 * 60 * 1000
Limit == 100
MsPerMinute == 1000 * 60

\* --------------------------------------------------------- value domains
ActiveStates == {"running", "queued"}
TerminalStates == {"success", "failed", "skipped", "upstream_failed"}
OtherStates == {"up_for_retry", "up_for_reschedule"}
States == ActiveStates \cup TerminalStates \cup OtherStates

Null == <<>>                 \* end_date: null
DateAt(t) == <<t>>           \* end_date: a timestamp the upstream reports
TickMs == 5 * 60 * 1000      \* one clock advance of the gateway specification
GateNow == 40 * 60 * 1000    \* Date.now() of the gate specification
EndDates ==
  { Null,                                  \* no end date
    DateAt(GateNow - 20 * 60 * 1000),      \* ended 20 minutes ago
    DateAt(GateNow - cooldownPeriod),      \* ended exactly 15 minutes ago
    DateAt(GateNow - cooldownPeriod + 1),  \* ended 1 ms less than 15 minutes ago
    DateAt(GateNow - 5 * 60 * 1000),       \* ended 5 minutes ago
    DateAt(GateNow + 60 * 1000) }          \* end date 1 minute ahead of the clock

ReqIds == {1, 2}
DagIds == {1, 2}
ErrorStatuses == {0, 409, 500}   \* error.response?.status; 0: no response at all

\* A run record carries the fields the gate decides on and reports: dag_id,
\* state and end_date. dag_run_id, start_date and logical_date are only copied
\* into the 409 body; the order of the list stands for order_by=-start_date.
VARIABLES
  now,        \* the gateway's clock, Date.now()
  runs,       \* the upstream's DAG runs, most recently started first
  req,        \* per request slot: position of the handler and what it holds
  served,     \* number of requests accepted so far
  USE_JWT_AUTH,  \* process.env.USE_JWT_AUTH === 'true'
  jwtToken,      \* the cached token, or null
  tokenExpiry,   \* the cached token's recorded expiry, or null
  call,          \* per airflowAPI call: position in the interceptor chain
  issued,        \* number of tokens the upstream's /auth/token has issued
  invalidated    \* the tokens that were cached when a 401 cleared the cache

authVars == <<USE_JWT_AUTH, jwtToken, tokenExpiry, call, issued, invalidated>>
vars == <<now, runs, req, served, authVars>>

\* ------------------------------------------------------------ the gate
Min(a, b) == IF a <= b THEN a ELSE b
CeilDiv(a, b) == 0 - ((0 - a) \div b)
FloorDiv(a, b) == a \div b

\* GET /dags/~/dagRuns?limit=100&order_by=-start_date
ListRunsMutUnbounded(rs) == rs
ListRuns(rs) == SubSeq(rs, 1, Min(Len(rs), Limit))

IsActiveMutRetryBlocks(dagRun) == dagRun.state \notin TerminalStates
IsActiveMutRunningOnly(dagRun) == dagRun.state = "running"
IsActive(dagRun) == dagRun.state = "running" \/ dagRun.state = "queued"

IsCompleted(dagRun) ==
  \/ dagRun.state = "success"
  \/ dagRun.state = "failed"
  \/ dagRun.state = "skipped"
  \/ dagRun.state = "upstream_failed"

\* completedDagRuns[0]
mostRecentCompleted(completedDagRuns) == completedDagRuns[1]

InCooldownMutRounded(timeSinceCompletion) ==
  CeilDiv(timeSinceCompletion, MsPerMinute) < cooldownPeriod \div MsPerMinute
InCooldownMutNeverExpires(timeSinceCompletion) == TRUE
InCooldownMutInclusive(timeSinceCompletion) == timeSinceCompletion <= cooldownPeriod
InCooldown(timeSinceCompletion) == timeSinceCompletion < cooldownPeriod

RunningDecisionMutExactlyOne(activeDagRuns) ==
  [ isRunning |-> TRUE,
    count |-> 1,
    runningDags |-> <<activeDagRuns[Len(activeDagRuns)]>>,
    reason |-> "running" ]
RunningDecisionMutNoReason(activeDagRuns) ==
  [ isRunning |-> TRUE,
    count |-> Len(activeDagRuns),
    runningDags |-> activeDagRuns ]
RunningDecision(activeDagRuns) ==
  [ isRunning |-> TRUE,
    count |-> Len(activeDagRuns),
    runningDags |-> activeDagRuns,
    reason |-> "running" ]

CooldownDecision(rec, timeSinceCompletion) ==
  [ isRunning |-> TRUE,
    count |-> 0,
    runningDags |-> <<>>,
    inCooldown |-> TRUE,
    cooldownInfo |->
      [ last_dag_id |-> rec.dag_id,
        last_dag_state |-> rec.state,
        end_date |-> rec.end_date,
        minutes_since_completion |-> FloorDiv(timeSinceCompletion, MsPerMinute),
        remaining_cooldown_minutes |->
          CeilDiv(cooldownPeriod - timeSinceCompletion, MsPerMinute) ],
    reason |-> "cooldown" ]

AllowedDecision ==
  [ isRunning |-> FALSE, count |-> 0, runningDags |-> <<>>, inCooldown |-> FALSE ]

\* the value the catch block of isAnyDagRunning returns
FailOpenDecisionMutClosed ==
  [ isRunning |-> TRUE, count |-> 0, runningDags |-> <<>>, inCooldown |-> FALSE ]
FailOpenDecision ==
  [ isRunning |-> FALSE, count |-> 0, runningDags |-> <<>>, inCooldown |-> FALSE ]

\* the try block of isAnyDagRunning on a list response, evaluated at time t
Evaluate(allDagRuns, t) ==
  LET activeDagRuns == SelectSeq(allDagRuns, IsActive)
      completedDagRuns == SelectSeq(allDagRuns, IsCompleted)
  IN IF Len(activeDagRuns) > 0
       THEN RunningDecision(activeDagRuns)
     ELSE IF Len(completedDagRuns) > 0
               /\ mostRecentCompleted(completedDagRuns).end_date # Null
               /\ InCooldown(t - mostRecentCompleted(completedDagRuns).end_date[1])
       THEN CooldownDecision(mostRecentCompleted(completedDagRuns),
                             t - mostRecentCompleted(completedDagRuns).end_date[1])
     ELSE AllowedDecision

\* isAnyDagRunning: resp is the outcome of the list call
isAnyDagRunning(resp, t) ==
  IF resp.ok THEN Evaluate(resp.dag_runs, t) ELSE FailOpenDecision

\* reading a key of a JS object that may not carry it
Field(obj, key, undefined) == IF key \in DOMAIN obj THEN obj[key] ELSE undefined

\* ------------------------------------------------- the response bodies
\* res.json of GET /api/status/running
StatusBody(runningStatus) ==
  [ has_running_dags |-> runningStatus.isRunning,
    count |-> runningStatus.count,
    running_dags |-> runningStatus.runningDags,
    in_cooldown |-> Field(runningStatus, "inCooldown", FALSE),
    cooldown_info |-> Field(runningStatus, "cooldownInfo", Null) ]

\* res.status(409).json of the cooldown branch
CooldownBody(cooldown) ==
  [ error |-> "Conflict",
    details |->
      [ reason |-> "Cooldown period - must wait 15 minutes after previous fault completion",
        in_cooldown |-> TRUE,
        last_completed_fault |->
          [ dag_id |-> cooldown.last_dag_id,
            state |-> cooldown.last_dag_state,
            end_date |-> cooldown.end_date,
            minutes_since_completion |-> cooldown.minutes_since_completion ],
        remaining_cooldown_minutes |-> cooldown.remaining_cooldown_minutes,
        cooldown_period_minutes |-> 15 ] ]

\* res.status(409).json of the running branch
RunningBody(runningStatus) ==
  [ error |-> "Conflict",
    details |->
      [ reason |-> "Only one Fault can run at a time",
        currently_running |->
          [ dag_id |-> runningStatus.runningDags[1].dag_id,
            state |-> runningStatus.runningDags[1].state ],
        total_running |-> runningStatus.count ] ]

\* res.status(error.response?.status || 500).json of the catch blocks
ErrorBody(status) ==
  [ error |-> IF status = 0 THEN "Network Error" ELSE "Request failed",
    details |-> IF status = 0 THEN Null ELSE DateAt(status) ]

PassThroughStatus(status) == IF status # 0 THEN status ELSE 500

\* if (runningStatus.isRunning): the handler answers 409 and returns
BlocksMutCooldownIgnored(runningStatus) ==
  runningStatus.isRunning /\ ~Field(runningStatus, "inCooldown", FALSE)
Blocks(runningStatus) == runningStatus.isRunning

\* the 409 branches read cooldownInfo.last_dag_id and runningDags[0].state: on a
\* status that lacks them the read throws and the handler's catch answers 500
Throws(runningStatus) ==
  IF Field(runningStatus, "inCooldown", FALSE)
    THEN "cooldownInfo" \notin DOMAIN runningStatus
    ELSE Len(runningStatus.runningDags) = 0

\* --------------------------------------------------------- request slots
NoDecision == [ none |-> TRUE ]
NoResp == [ none |-> TRUE ]
IdleReq ==
  [ pc |-> "idle", kind |-> "none", dagId |-> 0, resp |-> NoResp, listOk |-> FALSE,
    decision |-> NoDecision, forwarded |-> FALSE, http |-> 0, body |-> Null ]


NewRun(d) == [ dag_id |-> d, state |-> "queued", end_date |-> Null ]

\* ------------------------------------------------- the credential cache
CallIds == 1..MaxCalls
Token(k) == <<k>>            \* response.data.access_token of the k-th exchange
Basic == <<0>>               \* the Basic header built from username:password
TokenTickMs == (23 * 60 * 60 * 1000) \div 2   \* one clock advance of the client
ExchangeErrors == {0, 401}   \* error.response?.status of /auth/token; 0: none
ResponseStatuses == {200, 401, 500}   \* the upstream's answer to a sent request

\* the cache check of getJWTToken
CacheValidMutInclusive(tok, exp, t) == tok # Null /\ exp # Null /\ t <= exp[1]
CacheValid(tok, exp, t) == tok # Null /\ exp # Null /\ t < exp[1]

\* tokenExpiry = Date.now() + (23 * 60 * 60 * 1000)
ExpiryAfterExchangeMut24h(t) == DateAt(t + (24 * 60 * 60 * 1000))
ExpiryAfterExchange(t) == DateAt(t + (23 * 60 * 60 * 1000))

\* the response interceptor's condition for refreshing
ShouldRefreshMutAlways(status, retry) == status = 401
ShouldRefresh(status, retry) == status = 401 /\ ~retry

\* jwtToken = null; tokenExpiry = null
ClearedMutKept(cached) == cached
Cleared(cached) == Null

\* a call: where it stands (pc), whose config the chain holds (cfg: the
\* business request's, or the token request's), the config's _retry mark, the
\* requests sent through airflowAPI (attempts), the exchanges started for it,
\* the Authorization value of the last request sent, the last status received
IdleCall ==
  [ pc |-> "idle", cfg |-> "business", retry |-> FALSE, attempts |-> 0,
    exchanges |-> 0, sent |-> Null, status |-> 0, result |-> "none" ]

InitClient ==
  /\ jwtToken = Null
  /\ tokenExpiry = Null
  /\ call = [ c \in CallIds |-> IdleCall ]
  /\ issued = 0
  /\ invalidated = {}

\* getJWTToken goes to the token endpoint: axios.post is in flight
StartExchange(cl, at) == [ cl EXCEPT !.pc = at, !.exchanges = @ + 1 ]

\* the request interceptor with the cache as tok, exp: the Authorization
\* header is set and the request sent, or getJWTToken starts an exchange
RequestInterceptor(cl, tok, exp, t) ==
  IF USE_JWT_AUTH /\ ~CacheValid(tok, exp, t)
    THEN StartExchange(cl, "exchange")
    ELSE [ cl EXCEPT !.pc = "sent", !.attempts = @ + 1,
                     !.sent = IF USE_JWT_AUTH THEN tok ELSE Basic ]

\* the response interceptor's error handler, given error.config as cl and
\* error.response?.status
ResponseRejected(c, cl, status, failure) ==
  IF ShouldRefresh(status, cl.retry)
    THEN LET tok == Cleared(jwtToken)
             exp == Cleared(tokenExpiry)
             marked == [ cl EXCEPT !.retry = TRUE, !.status = status ]
         IN /\ jwtToken' = tok
            /\ tokenExpiry' = exp
            /\ invalidated' = invalidated \cup ({jwtToken} \ {Null})
            /\ call' = [ call EXCEPT ![c] =
                 IF CacheValid(tok, exp, now)
                   THEN RequestInterceptor(marked, tok, exp, now)
                   ELSE StartExchange(marked, "refresh") ]
    ELSE /\ call' = [ call EXCEPT ![c] =
                 [ cl EXCEPT !.pc = "done", !.status = status, !.result = failure ] ]
         /\ UNCHANGED <<jwtToken, tokenExpiry, invalidated>>

\* a handler calls airflowAPI.get/post/patch; calls are numbered as they start
CallStart(c) ==
  /\ call[c].pc = "idle"
  /\ \A d \in CallIds : d < c => call[d].pc # "idle"
  /\ call' = [ call EXCEPT ![c] = RequestInterceptor(@, jwtToken, tokenExpiry, now) ]
  /\ UNCHANGED <<now, runs, req, served, USE_JWT_AUTH, jwtToken, tokenExpiry,
                 issued, invalidated>>

\* /auth/token answers with a token: getJWTToken stores it and returns it; the
\* request interceptor sends the request, the 401 handler re-issues
\* originalRequest through airflowAPI
ExchangeOk(c) ==
  /\ call[c].pc \in {"exchange", "refresh"}
  /\ issued < MaxTokens
  /\ issued' = issued + 1
  /\ jwtToken' = Token(issued + 1)
  /\ tokenExpiry' = ExpiryAfterExchange(now)
  /\ call' = [ call EXCEPT ![c] =
       IF call[c].pc = "exchange"
         THEN [ @ EXCEPT !.pc = "sent", !.attempts = @ + 1, !.sent = jwtToken' ]
         ELSE RequestInterceptor(@, jwtToken', tokenExpiry', now) ]
  /\ UNCHANGED <<now, runs, req, served, USE_JWT_AUTH, invalidated>>

\* /auth/token does not answer, or answers with an error: getJWTToken throws.
\* Thrown in the request interceptor, the error passes to the response
\* interceptor's error handler with the token request's config as error.config
ExchangeFail(c, status) ==
  /\ call[c].pc \in {"exchange", "refresh"}
  /\ IF call[c].pc = "refresh"
       THEN /\ call' = [ call EXCEPT ![c].pc = "done", ![c].status = status,
                                     ![c].result = "authfail" ]
            /\ UNCHANGED <<jwtToken, tokenExpiry, invalidated>>
       ELSE ResponseRejected(c, [ call[c] EXCEPT !.cfg = "token", !.retry = FALSE ],
                             status, "authfail")
  /\ UNCHANGED <<now, runs, req, served, USE_JWT_AUTH, issued>>

\* the upstream answers a request sent through airflowAPI
Respond(c, status) ==
  /\ call[c].pc = "sent"
  /\ IF status = 200
       THEN /\ call' = [ call EXCEPT ![c].pc = "done", ![c].status = status,
                                     ![c].result = "ok" ]
            /\ UNCHANGED <<jwtToken, tokenExpiry, invalidated>>
       ELSE ResponseRejected(c, call[c], status, "fail")
  /\ UNCHANGED <<now, runs, req, served, USE_JWT_AUTH, issued>>

\* time passes
ClientTick ==
  /\ now + TokenTickMs <= MaxTicks * TokenTickMs
  /\ now' = now + TokenTickMs
  /\ UNCHANGED <<runs, req, served, authVars>>

InitAuth ==
  /\ now = 0
  /\ runs = <<>>
  /\ req = [ r \in ReqIds |-> IdleReq ]
  /\ served = 0
  /\ USE_JWT_AUTH \in BOOLEAN
  /\ InitClient

NextAuth ==
  \/ \E c \in CallIds : CallStart(c)
  \/ \E c \in CallIds : ExchangeOk(c)
  \/ \E c \in CallIds, s \in ExchangeErrors : ExchangeFail(c, s)
  \/ \E c \in CallIds, s \in ResponseStatuses : Respond(c, s)
  \/ ClientTick

SpecAuth == InitAuth /\ [][NextAuth]_vars

Init ==
  /\ now = 0
  /\ runs = <<>>
  /\ req = [ r \in ReqIds |-> IdleReq ]
  /\ served = 0
  /\ USE_JWT_AUTH = TRUE
  /\ InitClient

\* a request reaches app.get('/api/status/running'): isAnyDagRunning starts
\* its airflowAPI.get
GetStatus(r) ==
  /\ req[r].pc \in {"idle", "done"}
  /\ served < MaxReqs
  /\ served' = served + 1
  /\ req' = [ req EXCEPT ![r] = [ IdleReq EXCEPT !.pc = "list", !.kind = "status" ] ]
  /\ UNCHANGED <<now, runs, authVars>>

\* a request reaches app.post('/api/dags/:dagId/dagRuns')
PostTrigger(r, d) ==
  /\ req[r].pc \in {"idle", "done"}
  /\ served < MaxReqs
  /\ served' = served + 1
  /\ req' = [ req EXCEPT ![r] =
                [ IdleReq EXCEPT !.pc = "list", !.kind = "post", !.dagId = d ] ]
  /\ UNCHANGED <<now, runs, authVars>>

\* the upstream answers the list call with its runs of that moment
ListRunsOk(r) ==
  /\ req[r].pc = "list"
  /\ req' = [ req EXCEPT ![r].pc = "listed",
                         ![r].resp = [ ok |-> TRUE, dag_runs |-> ListRuns(runs) ] ]
  /\ UNCHANGED <<now, runs, served, authVars>>

\* the list call is rejected: no answer, or a non-2xx answer
ListRunsFail(r) ==
  /\ req[r].pc = "list"
  /\ req' = [ req EXCEPT ![r].pc = "listed", ![r].resp = [ ok |-> FALSE ] ]
  /\ UNCHANGED <<now, runs, served, authVars>>

\* GET /api/status/running resumes after await isAnyDagRunning()
StatusRespond(r) ==
  /\ req[r].pc = "listed"
  /\ req[r].kind = "status"
  /\ LET runningStatus == isAnyDagRunning(req[r].resp, now)
     IN req' = [ req EXCEPT ![r].pc = "done",
                            ![r].resp = NoResp,
                            ![r].listOk = req[r].resp.ok,
                            ![r].decision = runningStatus,
                            ![r].http = 200,
                            ![r].body = StatusBody(runningStatus) ]
  /\ UNCHANGED <<now, runs, served, authVars>>

\* POST resumes after await isAnyDagRunning(): 409, or airflowAPI.post
PostDecide(r) ==
  /\ req[r].pc = "listed"
  /\ req[r].kind = "post"
  /\ LET runningStatus == isAnyDagRunning(req[r].resp, now)
     IN IF Blocks(runningStatus) /\ Throws(runningStatus)
          THEN req' = [ req EXCEPT
                 ![r].pc = "done",
                 ![r].resp = NoResp,
                 ![r].listOk = req[r].resp.ok,
                 ![r].decision = runningStatus,
                 ![r].http = PassThroughStatus(0),
                 ![r].body = ErrorBody(0) ]
        ELSE IF Blocks(runningStatus)
          THEN req' = [ req EXCEPT
                 ![r].pc = "done",
                 ![r].resp = NoResp,
                 ![r].listOk = req[r].resp.ok,
                 ![r].decision = runningStatus,
                 ![r].http = 409,
                 ![r].body = IF Field(runningStatus, "inCooldown", FALSE)
                               THEN CooldownBody(runningStatus.cooldownInfo)
                               ELSE RunningBody(runningStatus) ]
          ELSE req' = [ req EXCEPT
                 ![r].pc = "trigger",
                 ![r].resp = NoResp,
                 ![r].listOk = req[r].resp.ok,
                 ![r].decision = runningStatus,
                 ![r].forwarded = TRUE ]
  /\ UNCHANGED <<now, runs, served, authVars>>

\* the upstream accepts the trigger call and records the new run
TriggerOk(r) ==
  /\ req[r].pc = "trigger"
  /\ Len(runs) < MaxRuns
  /\ runs' = <<NewRun(req[r].dagId)>> \o runs
  /\ req' = [ req EXCEPT ![r].pc = "done", ![r].http = 200,
                         ![r].body = NewRun(req[r].dagId) ]
  /\ UNCHANGED <<now, served, authVars>>

\* the trigger call is rejected: no answer, or a non-2xx answer
TriggerFail(r, status) ==
  /\ req[r].pc = "trigger"
  /\ req' = [ req EXCEPT ![r].pc = "done", ![r].http = PassThroughStatus(status),
                         ![r].body = ErrorBody(status) ]
  /\ UNCHANGED <<now, runs, served, authVars>>

\* the upstream scheduler starts a queued run
RunStarts(i) ==
  /\ i \in 1..Len(runs)
  /\ runs[i].state = "queued"
  /\ runs' = [ runs EXCEPT ![i].state = "running" ]
  /\ UNCHANGED <<now, req, served, authVars>>

\* a run reaches a final state; the upstream stamps its end date
RunCompletes(i, st) ==
  /\ i \in 1..Len(runs)
  /\ runs[i].state = "running"
  /\ runs' = [ runs EXCEPT ![i].state = st, ![i].end_date = DateAt(now) ]
  /\ UNCHANGED <<now, req, served, authVars>>

\* time passes
Tick ==
  /\ now + TickMs <= MaxTicks * TickMs
  /\ now' = now + TickMs
  /\ UNCHANGED <<runs, req, served, authVars>>

Next ==
  \/ \E r \in ReqIds : GetStatus(r)
  \/ \E r \in ReqIds, d \in DagIds : PostTrigger(r, d)
  \/ \E r \in ReqIds : ListRunsOk(r)
  \/ \E r \in ReqIds : ListRunsFail(r)
  \/ \E r \in ReqIds : StatusRespond(r)
  \/ \E r \in ReqIds : PostDecide(r)
  \/ \E r \in ReqIds : TriggerOk(r)
  \/ \E r \in ReqIds, s \in ErrorStatuses : TriggerFail(r, s)
  \/ \E i \in 1..MaxRuns : RunStarts(i)
  \/ \E i \in 1..MaxRuns, st \in {"success", "failed"} : RunCompletes(i, st)
  \/ Tick

Spec == Init /\ [][Next]_vars

\* the gateway under the scheduling Node gives it: a handler whose await has
\* settled resumes. airflowAPI is created without a timeout and no timer is
\* armed around its calls, so nothing in the gateway settles a call the
\* upstream leaves unanswered; the upstream's answers carry no fairness.
HandlerResumes == \E r \in ReqIds : StatusRespond(r) \/ PostDecide(r)

SpecLive == Init /\ [][Next]_vars /\ WF_vars(HandlerResumes)

\* ------------------------------------------------- the gate specification
\* the gate applied to every list of run records up to MaxLen: a running or
\* queued run has no end date yet, a finished one may report any
EndDatesOf(st) == IF st \in TerminalStates THEN EndDates ELSE { Null }

RunShapes ==
  UNION { { [ state |-> st, end_date |-> e ] : e \in EndDatesOf(st) } : st \in States }

InitGate ==
  /\ now = GateNow
  /\ \E n \in 0..MaxLen :
       \E shape \in [ 1..n -> RunShapes ] :
         runs = [ i \in 1..n |->
                  [ dag_id |-> i, state |-> shape[i].state,
                    end_date |-> shape[i].end_date ] ]
  /\ req = [ r \in ReqIds |-> IdleReq ]
  /\ served = 0
  /\ USE_JWT_AUTH = TRUE
  /\ InitClient

\* await isAnyDagRunning() on the upstream's answer to the list call
GateEvaluate(r) ==
  /\ req[r].pc = "idle"
  /\ req' = [ req EXCEPT
       ![r].pc = "done",
       ![r].kind = "gate",
       ![r].listOk = TRUE,
       ![r].decision =
         isAnyDagRunning([ ok |-> TRUE, dag_runs |-> ListRuns(runs) ], now) ]
  /\ UNCHANGED <<now, runs, served, authVars>>

\* await isAnyDagRunning() when the list call is rejected
GateListFails(r) ==
  /\ req[r].pc = "idle"
  /\ req' = [ req EXCEPT
       ![r].pc = "done",
       ![r].kind = "gatefail",
       ![r].listOk = FALSE,
       ![r].decision = isAnyDagRunning([ ok |-> FALSE ], now) ]
  /\ UNCHANGED <<now, runs, served, authVars>>

NextGate == GateEvaluate(1) \/ GateListFails(1)

SpecGate == InitGate /\ [][NextGate]_vars

\* ----------------------------------------------- the window specification
\* the gate applied to an upstream that holds more runs than one list call
\* returns: the most recently started run and the Limit-th vary, the runs
\* between them are waiting for a retry, up to MaxBeyond older runs follow
WindowShapes ==
  { [ state |-> "running", end_date |-> Null ],
    [ state |-> "success", end_date |-> DateAt(GateNow - 5 * 60 * 1000) ],
    [ state |-> "success", end_date |-> DateAt(GateNow - 20 * 60 * 1000) ],
    [ state |-> "up_for_retry", end_date |-> Null ] }

InitWindow ==
  /\ now = GateNow
  /\ \E newest \in WindowShapes, oldest \in WindowShapes, n \in 0..MaxBeyond :
       \E beyond \in [ 1..n -> WindowShapes ] :
         runs = [ i \in 1..(Limit + n) |->
                  LET shape == IF i = 1 THEN newest
                               ELSE IF i = Limit THEN oldest
                               ELSE IF i > Limit THEN beyond[i - Limit]
                               ELSE [ state |-> "up_for_retry", end_date |-> Null ]
                  IN [ dag_id |-> i, state |-> shape.state,
                       end_date |-> shape.end_date ] ]
  /\ req = [ r \in ReqIds |-> IdleReq ]
  /\ served = 0
  /\ USE_JWT_AUTH = TRUE
  /\ InitClient

NextWindow == GateEvaluate(1)

SpecWindow == InitWindow /\ [][NextWindow]_vars

\* ------------------------------------------------- the claims on the gate
\* what a gate evaluation of the gate specification was given
GateDone(r) == req[r].pc = "done" /\ req[r].kind = "gate"
Snapshot == ListRuns(runs)
ActiveIn(rs) == { i \in 1..Len(rs) : rs[i].state \in ActiveStates }
TerminalIn(rs) == { i \in 1..Len(rs) : rs[i].state \in TerminalStates }
DatedTerminalIn(rs) == { i \in TerminalIn(rs) : rs[i].end_date # Null }
TerminalEnds(rs) == { rs[i].end_date[1] : i \in DatedTerminalIn(rs) }
Latest(S) == CHOOSE x \in S : \A y \in S : y <= x

\* C1: a snapshot holding a running or queued record is always answered
\* blocked with reason 'running': isRunning, no inCooldown key, runningDags
\* non-empty, whatever terminal records and end dates it also holds.
C1_ActiveRunBlocks ==
  \A r \in ReqIds :
    GateDone(r) /\ ActiveIn(Snapshot) # {} =>
      /\ req[r].decision.isRunning = TRUE
      /\ "reason" \in DOMAIN req[r].decision
      /\ req[r].decision.reason = "running"
      /\ "inCooldown" \notin DOMAIN req[r].decision
      /\ Len(req[r].decision.runningDags) > 0

\* C1 witness: a queued record listed after a terminal record that ended
\* five minutes ago, and the gate answered 'running'.
C1_Witness ==
  /\ GateDone(1)
  /\ Len(Snapshot) >= 2
  /\ Snapshot[1].state \in TerminalStates
  /\ Snapshot[1].end_date = DateAt(GateNow - 5 * 60 * 1000)
  /\ Snapshot[2].state = "queued"
  /\ req[1].decision.reason = "running"

\* C2 (as claimed): with no active record, a terminal record that ended less
\* than the cooldown ago, at any position, gives blocked with reason
\* 'cooldown' and remaining minutes ceil((cooldown - elapsed) / 1 minute).
C2_AnyRecentTerminalBlocks ==
  \A r \in ReqIds :
    GateDone(r) /\ ActiveIn(Snapshot) = {} =>
      \A i \in DatedTerminalIn(Snapshot) :
        now - Snapshot[i].end_date[1] < cooldownPeriod =>
          /\ req[r].decision.isRunning = TRUE
          /\ "reason" \in DOMAIN req[r].decision
          /\ req[r].decision.reason = "cooldown"
          /\ req[r].decision.cooldownInfo.remaining_cooldown_minutes =
               CeilDiv(cooldownPeriod - (now - Snapshot[i].end_date[1]), MsPerMinute)

\* C3: with no active record and either no terminal record or the latest
\* terminal end date at least the cooldown ago (boundary included), the gate
\* answers allowed: isRunning false, inCooldown false.
C3_ExpiredCooldownAllows ==
  \A r \in ReqIds :
    /\ GateDone(r)
    /\ ActiveIn(Snapshot) = {}
    /\ \/ TerminalIn(Snapshot) = {}
       \/ /\ TerminalEnds(Snapshot) # {}
          /\ now - Latest(TerminalEnds(Snapshot)) >= cooldownPeriod
    => /\ req[r].decision.isRunning = FALSE
       /\ "inCooldown" \in DOMAIN req[r].decision
       /\ req[r].decision.inCooldown = FALSE

\* C3 witness: the only dated terminal record ended exactly 15 minutes ago
\* and the gate allowed.
C3_Witness ==
  /\ GateDone(1)
  /\ ActiveIn(Snapshot) = {}
  /\ TerminalEnds(Snapshot) = { GateNow - cooldownPeriod }
  /\ req[1].decision.isRunning = FALSE

\* C4 (as claimed): with no active record, the record the cooldown is
\* computed from and reported is the terminal record with the latest end date.
C4_LatestEndSelected ==
  \A r \in ReqIds :
    /\ GateDone(r)
    /\ ActiveIn(Snapshot) = {}
    /\ "cooldownInfo" \in DOMAIN req[r].decision
    => req[r].decision.cooldownInfo.end_date =
         DateAt(Latest(TerminalEnds(Snapshot)))

\* --------------------------------------------- the claims on the gateway
Decided(r) == req[r].kind = "post" /\ req[r].pc \in {"trigger", "done"}

\* C5 (as claimed): of two concurrent POST requests for different DAGs that
\* both evaluated the gate on an answered list call, only one has its trigger
\* call under way; the other is rejected.
C5_OneOfTwoConcurrentTriggers ==
  \A r1, r2 \in ReqIds :
    /\ r1 # r2 /\ req[r1].dagId # req[r2].dagId
    /\ Decided(r1) /\ Decided(r2) /\ req[r1].listOk /\ req[r2].listOk
    => ~(req[r1].pc = "trigger" /\ req[r2].pc = "trigger")

\* C6 (as claimed): the gateway never causes two runs to be running or queued
\* upstream at the same time.
C6_AtMostOneActiveRun == Cardinality(ActiveIn(runs)) <= 1

\* C7 (as claimed): a trigger call is issued only when every completed run
\* ended at least 15 minutes earlier.
C7_NoTriggerWithinCooldown ==
  [][ \A r \in ReqIds :
        req[r].pc = "listed" /\ req'[r].pc = "trigger" =>
          \A i \in DatedTerminalIn(runs) :
            now - runs[i].end_date[1] >= cooldownPeriod ]_vars

\* C8: a POST issues its trigger call only after its own gate evaluation, and
\* exactly when that evaluation allowed; a blocked evaluation is answered 409
\* with no trigger call.
C8_TriggerIffOwnGateAllows ==
  \A r \in ReqIds :
    req[r].kind = "post" =>
      /\ req[r].pc \in {"list", "listed"} =>
           req[r].decision = NoDecision /\ ~req[r].forwarded /\ req[r].http = 0
      /\ Decided(r) =>
           /\ req[r].decision # NoDecision
           /\ req[r].forwarded <=> ~req[r].decision.isRunning
           /\ req[r].decision.isRunning =>
                req[r].pc = "done" /\ req[r].http = 409

\* C8 witness: one POST was allowed and triggered its run, the other was
\* evaluated while that run was active and answered 409 without a trigger call.
C8_Witness ==
  \E r1, r2 \in ReqIds :
    /\ req[r1].kind = "post" /\ req[r1].pc = "done"
    /\ req[r1].forwarded /\ req[r1].http = 200
    /\ req[r2].kind = "post" /\ req[r2].pc = "done"
    /\ req[r2].decision.isRunning /\ req[r2].http = 409 /\ ~req[r2].forwarded

C10_ListFailureSurfaces ==
  \A r \in ReqIds :
    req[r].pc = "done" /\ ~req[r].listOk =>
      /\ req[r].kind = "status" =>
           ~(req[r].http = 200 /\ req[r].body = StatusBody(Evaluate(<<>>, now)))
      /\ req[r].kind = "post" =>
           ~(req[r].http = 200 /\ req[r].body = NewRun(req[r].dagId))

\* C11 (as claimed): POST answers 409 only when its gate evaluation denied,
\* and every 409 carries the gate's rejection body.
C11_Only409OnGateDenial ==
  \A r \in ReqIds :
    req[r].kind = "post" /\ req[r].pc = "done" /\ req[r].http = 409 =>
      /\ req[r].decision.isRunning
      /\ ~req[r].forwarded
      /\ req[r].body.error = "Conflict"

\* C19: every decision of isAnyDagRunning, the catch block's included, is
\* blocked exactly when it carries a reason ('running' or 'cooldown'), and
\* carries cooldownInfo exactly when the reason is 'cooldown'.
C19_ReasonIffBlocked ==
  \A r \in ReqIds :
    req[r].pc = "done" /\ req[r].kind \in {"gate", "gatefail"} =>
      LET d == req[r].decision
          reason == Field(d, "reason", "none")
      IN /\ reason \in {"none", "running", "cooldown"}
         /\ d.isRunning <=> reason # "none"
         /\ "cooldownInfo" \in DOMAIN d <=> reason = "cooldown"
         /\ "cooldownInfo" \in DOMAIN d =>
              "remaining_cooldown_minutes" \in DOMAIN d.cooldownInfo

\* C19 witness: a terminal record that ended five minutes ago, listed first,
\* gave a blocked decision with reason 'cooldown' and ten minutes remaining.
C19_Witness ==
  /\ GateDone(1)
  /\ ActiveIn(Snapshot) = {}
  /\ req[1].decision.isRunning
  /\ req[1].decision.reason = "cooldown"
  /\ req[1].decision.cooldownInfo.remaining_cooldown_minutes = 10

\* ------------------------------------------ the claims on the credentials
Exchanging == { c \in CallIds : call[c].pc \in {"exchange", "refresh"} }
tokenWindow == 23 * 60 * 60 * 1000

C13_FreshAfterInvalidate ==
  [][\A c \in CallIds :
       LET old == call[c]
           new == call'[c]
       IN /\ ~old.retry /\ new.retry =>
               /\ jwtToken' = Null /\ tokenExpiry' = Null
               /\ new.pc = "refresh" /\ new.exchanges = old.exchanges + 1
          /\ USE_JWT_AUTH /\ new.attempts > old.attempts => new.sent \notin invalidated'
          /\ jwtToken' \notin invalidated'
    ]_vars

\* C13 witness: a retry is in flight with the token of the exchange made
\* after the invalidation, while another request still carries the
\* invalidated one.
C13_Witness ==
  \E c, other \in CallIds :
    /\ c # other
    /\ call[c].pc = "sent" /\ call[c].retry
    /\ call[c].sent = jwtToken /\ call[c].sent \notin invalidated
    /\ call[other].pc = "sent" /\ call[other].sent \in invalidated

\* C14 (as claimed): at most one request to the token endpoint is in flight.
C14_SingleFlight == Cardinality(Exchanging) <= 1

\* C15: in JWT mode every request sent carries the cached token, and the
\* clock is before the recorded expiry at that moment.
C15_CachedBeforeExpiry ==
  [][\A c \in CallIds :
       USE_JWT_AUTH /\ call'[c].attempts > call[c].attempts =>
         /\ call'[c].sent = jwtToken'
         /\ jwtToken' # Null /\ tokenExpiry' # Null
         /\ now' < tokenExpiry'[1]
    ]_vars

\* C15 witness: a token obtained at time 0 is attached, without an exchange,
\* to a request sent half a validity window later.
C15_Witness ==
  \E c \in CallIds :
    /\ USE_JWT_AUTH
    /\ call[c].pc = "sent" /\ call[c].exchanges = 0
    /\ call[c].sent = jwtToken
    /\ tokenExpiry = DateAt(tokenWindow)
    /\ now = TokenTickMs

\* C16 (as claimed): after a 401 to a sent request has been handled, the
\* token that request carried is no longer the cached one.
C16_Every401Invalidates ==
  \A c \in CallIds :
    /\ USE_JWT_AUTH /\ call[c].cfg = "business"
    /\ call[c].attempts >= 1 /\ call[c].status = 401
    /\ call[c].pc = "refresh" \/ (call[c].pc = "done" /\ call[c].result = "fail")
    => jwtToken # call[c].sent

\* C17: in JWT mode a call's getJWTToken goes to the token endpoint exactly
\* when no token is cached or the clock has reached tokenExpiry; otherwise the
\* request leaves with the cached token, no exchange is started and the cache
\* is untouched. A stored token expires 23 hours after the exchange.
C17_ExchangeIffStale ==
  [][
    /\ \A c \in CallIds :
         USE_JWT_AUTH /\ call[c].pc = "idle" /\ call'[c].pc # "idle" =>
           LET stale == jwtToken = Null \/ tokenExpiry = Null \/ now >= tokenExpiry[1]
           IN /\ stale <=> call'[c].pc = "exchange"
              /\ stale => call'[c].exchanges = 1 /\ call'[c].attempts = 0
              /\ ~stale =>
                   /\ call'[c].pc = "sent" /\ call'[c].sent = jwtToken
                   /\ call'[c].exchanges = 0
              /\ jwtToken' = jwtToken /\ tokenExpiry' = tokenExpiry
              /\ issued' = issued
    /\ issued' # issued =>
         /\ jwtToken' = Token(issued')
         /\ tokenExpiry' = DateAt(now + tokenWindow)
  ]_vars

\* C17 witness: a token obtained at time 0 is still cached when the clock
\* stands at its expiry, and a call started then is at the token endpoint.
C17_Witness ==
  \E c \in CallIds :
    /\ call[c].pc = "exchange"
    /\ jwtToken # Null
    /\ tokenExpiry = DateAt(tokenWindow)
    /\ now = tokenWindow

\* C18 (as claimed): a call whose exchange in the request interceptor failed
\* has failed after that one exchange, with no request sent.
C18_OneExchangeAttempt ==
  \A c \in CallIds :
    call[c].cfg = "token" =>
      /\ call[c].pc = "done" /\ call[c].result = "authfail"
      /\ call[c].exchanges = 1 /\ call[c].attempts = 0

\* ------------------------------------------ further claims on the gate
First(S) == CHOOSE x \in S : \A y \in S : x <= y
IsOther(dagRun) == dagRun.state \in OtherStates
NotOther(dagRun) == ~IsOther(dagRun)

\* C21: with no active record and the first terminal record of the list
\* dated, the gate blocks exactly when now - end_date < 900000 ms; a cooldown
\* decision reports ceil((900000 - elapsed) / 60000) remaining minutes, at
\* least 1, and floor(elapsed / 60000) minutes since completion.
C21_UnroundedComparison ==
  GateDone(1) /\ ActiveIn(Snapshot) = {} /\ TerminalIn(Snapshot) # {} =>
    LET rec == Snapshot[First(TerminalIn(Snapshot))]
        d == req[1].decision
    IN rec.end_date # Null =>
         LET elapsed == now - rec.end_date[1]
         IN /\ d.isRunning <=> elapsed < 900000
            /\ d.isRunning =>
                 /\ d.reason = "cooldown"
                 /\ d.cooldownInfo.remaining_cooldown_minutes >= 1
                 /\ (d.cooldownInfo.remaining_cooldown_minutes - 1) * 60000
                      < 900000 - elapsed
                 /\ 900000 - elapsed
                      <= d.cooldownInfo.remaining_cooldown_minutes * 60000
                 /\ d.cooldownInfo.minutes_since_completion * 60000 <= elapsed
                 /\ elapsed < (d.cooldownInfo.minutes_since_completion + 1) * 60000

\* C21 witness: the first terminal record ended 899999 ms ago; the gate
\* blocked and reports 1 remaining minute and 14 minutes since completion.
C21_Witness ==
  /\ GateDone(1)
  /\ ActiveIn(Snapshot) = {}
  /\ TerminalIn(Snapshot) # {}
  /\ Snapshot[First(TerminalIn(Snapshot))].end_date = DateAt(now - 899999)
  /\ req[1].decision.isRunning
  /\ req[1].decision.cooldownInfo.remaining_cooldown_minutes = 1
  /\ req[1].decision.cooldownInfo.minutes_since_completion = 14

\* C25: the decision on a list equals the decision on the same list with
\* every record in another state than the six the gate names taken out.
C25_OtherStatesIgnored ==
  GateDone(1) => req[1].decision = Evaluate(SelectSeq(Snapshot, NotOther), now)

\* C25 witness: an up_for_retry record stands before a terminal record that
\* ended five minutes ago, and the gate reports that record's cooldown.
C25_Witness ==
  /\ GateDone(1)
  /\ Len(Snapshot) >= 2
  /\ IsOther(Snapshot[1])
  /\ Snapshot[2].state \in TerminalStates
  /\ Snapshot[2].end_date = DateAt(now - 5 * 60 * 1000)
  /\ req[1].decision.isRunning
  /\ req[1].decision.reason = "cooldown"
  /\ req[1].decision.cooldownInfo.last_dag_id = Snapshot[2].dag_id

\* C26: with active records in the list, runningDags[0] and the 409 body's
\* currently_running are the first active record of the list (the most
\* recently started), and count and total_running are the number of active
\* records.
C26_FirstActiveReported ==
  GateDone(1) /\ ActiveIn(Snapshot) # {} =>
    LET d == req[1].decision
        first == Snapshot[First(ActiveIn(Snapshot))]
    IN /\ d.runningDags[1] = first
       /\ d.count = Cardinality(ActiveIn(Snapshot))
       /\ Len(d.runningDags) = d.count
       /\ RunningBody(d).details.currently_running.dag_id = first.dag_id
       /\ RunningBody(d).details.currently_running.state = first.state
       /\ RunningBody(d).details.total_running = d.count

\* C26 witness: a queued record started after a running one; the queued
\* record is reported and the count is 2.
C26_Witness ==
  /\ GateDone(1)
  /\ Len(Snapshot) >= 2
  /\ Snapshot[1].state = "queued"
  /\ Snapshot[2].state = "running"
  /\ ActiveIn(Snapshot) = {1, 2}
  /\ req[1].decision.runningDags[1] = Snapshot[1]
  /\ req[1].decision.count = 2

\* C30 (as claimed): a reported cooldown has remaining_cooldown_minutes in
\* 1..15 and minutes_since_completion in 0..14.
C30_CooldownMinutesInRange ==
  GateDone(1) /\ Field(req[1].decision, "reason", "none") = "cooldown" =>
    /\ req[1].decision.cooldownInfo.remaining_cooldown_minutes \in 1..15
    /\ req[1].decision.cooldownInfo.minutes_since_completion \in 0..14

\* C24: the decision is the gate's value on the 100 most recently started
\* runs alone, and every run it reports is one of those 100.
C24_WindowOnly ==
  GateDone(1) /\ Len(runs) >= 100 =>
    LET window == [ i \in 1..100 |-> runs[i] ]
        d == req[1].decision
    IN /\ d = Evaluate(window, now)
       /\ \A k \in 1..Len(d.runningDags) : d.runningDags[k].dag_id <= 100
       /\ d.count <= 100
       /\ "cooldownInfo" \in DOMAIN d => d.cooldownInfo.last_dag_id <= 100

\* C24 witness: the upstream holds a running run and a run that ended five
\* minutes ago, both older than the 100 listed, which hold neither an active
\* nor a terminal record; the gate allowed.
C24_Witness ==
  /\ GateDone(1)
  /\ Len(runs) = 102
  /\ runs[101].state = "running"
  /\ runs[102].end_date = DateAt(now - 5 * 60 * 1000)
  /\ \A i \in 1..100 : runs[i].state = "up_for_retry"
  /\ ~req[1].decision.isRunning

\* ---------------------------------------- further claims on the gateway
\* every run is terminal with an end date at least the cooldown ago
Quiescent ==
  \A i \in 1..Len(runs) :
    /\ runs[i].state \in TerminalStates
    /\ runs[i].end_date # Null
    /\ now - runs[i].end_date[1] >= cooldownPeriod

\* C22 (as claimed): every request whose upstream call is in flight is
\* eventually answered.
C22_EveryRequestAnswered ==
  \A r \in ReqIds : (req[r].pc \in {"list", "trigger"}) ~> (req[r].pc = "done")

\* C23: a gate evaluation that resumes on a list of the upstream's present
\* runs, all terminal and ended at least 15 minutes ago, returns allowed; a
\* POST then goes on to the trigger call.
C23_BlockingEnds ==
  [][\A r \in ReqIds :
       /\ req[r].pc = "listed" /\ req'[r].pc # "listed"
       /\ req[r].resp.ok
       /\ req[r].resp.dag_runs = ListRuns(runs)
       /\ Quiescent
       => /\ ~req'[r].decision.isRunning
          /\ req[r].kind = "post" => req'[r].pc = "trigger" /\ req'[r].forwarded
    ]_vars

\* C23 witness: a run was triggered, ran and ended; 15 minutes later a POST
\* passed the gate and its trigger call is in flight.
C23_Witness ==
  \E r \in ReqIds :
    /\ Len(runs) >= 1
    /\ Quiescent
    /\ req[r].kind = "post" /\ req[r].pc = "trigger" /\ req[r].forwarded
    /\ req[r].listOk /\ ~req[r].decision.isRunning

\* -------------------------------------- further claims on the credentials
\* C27 (as claimed): in Basic mode no exchange is ever started and the cache
\* stays empty.
C27_BasicModeNoExchange ==
  ~USE_JWT_AUTH =>
    /\ \A c \in CallIds : call[c].exchanges = 0
    /\ issued = 0
    /\ jwtToken = Null /\ tokenExpiry = Null

\* C28 (as claimed): every request sent through airflowAPI, and every answer
\* handed to the caller, belongs to the business request.
C28_OnlyBusinessRequestSent ==
  \A c \in CallIds :
    call[c].attempts >= 1 \/ call[c].result = "ok" => call[c].cfg = "business"

\* C29 (as claimed): a 401 clears a cached token only if the rejected request
\* carried that token.
C29_ClearOnlyOwnToken ==
  [][\A c \in CallIds :
       /\ USE_JWT_AUTH
       /\ call[c].pc = "sent" /\ ~call[c].retry /\ call'[c].retry
       /\ jwtToken # Null
       => jwtToken = call[c].sent
    ]_vars

====
